---- MODULE Spec2Model ----
(***************************************************************************)
(* Model of the news ingestion dataflow of backend/flow.py:                *)
(*   NewsStreamInput partitions (one per provider fetch function)          *)
(*     -> refine -> chunkenize -> embed -> QdrantVectorSink.write_batch    *)
(* Texts are sequences of tokens, datetimes are whole seconds since the    *)
(* process started, the Qdrant collection is a set of points with at most  *)
(* one point per id.                                                       *)
(***************************************************************************)
EXTENDS Integers, Sequences, FiniteSets, TLC

\* ------------------------------------------------------------------ bounds
MaxTime == 10         \* the clock runs from 0 to MaxTime seconds
MaxDocs == 2          \* CommonDocuments emitted by all polls together
MaxBatch == 2         \* records in one provider response
MaxFaults == 1        \* store calls (query_points, upsert) that raise
MaxRestarts == 1      \* restarts of the dataflow from its checkpoint
MaxThreads == 2       \* threads that request a TextEmbedder
MaxLoadFailures == 1  \* model or tokenizer loads that raise
MaxTextLen == 2       \* characters of a title, description or content a provider sends
MaxUrlLen == 4        \* characters of a url a provider sends

\* ------------------------------------------------------- program constants
PollIntervalSeconds == 5
NoneValue == -1       \* Python's None where a datetime may stand

\* -------------------------------------------------------------- value sets
Parts == {"fetch_from_newsapi", "fetch_from_newsdataapi"}

\* Python truthiness of an Optional[datetime]: None is falsy, a datetime is not.
Truthy(v) == v # NoneValue

\* Python's `a or b`.
PyOr(a, b) == IF Truthy(a) THEN a ELSE b


\* The sequences over S of length at most n.
RECURSIVE SeqsUpTo(_, _)
SeqsUpTo(S, n) ==
    IF n = 0 THEN {<<>>}
    ELSE LET shorter == SeqsUpTo(S, n - 1)
         IN  shorter \cup {Append(q, x) : q \in {r \in shorter : Len(r) = n - 1}, x \in S}

Range(q) == {q[i] : i \in 1..Len(q)}

\* The outcome of a Python call: the exception that leaves it ("" for none)
\* and the value it returns.
Returned(v) == [exc |-> "", value |-> v]
Raised(e) == [exc |-> e, value |-> <<>>]

\* --------------------------------------------------- backend/cleaners.py
\* A text is a sequence of characters drawn from a few character classes.
Whitespace == {" "}
Punctuation == {"!", ".", "/"}
NonAscii == {"e'"}

\* First index j > i with text[j] = ">" (0 when there is none).
RECURSIVE FirstClose(_, _)
FirstClose(text, j) ==
    IF j > Len(text) THEN 0
    ELSE IF text[j] = ">" THEN j
    ELSE FirstClose(text, j + 1)

\* re.sub(r"<[^>]+>", "", text): scanning from the left, a "<" followed by at
\* least one character other than ">" and then a ">" is dropped with all it spans.
RECURSIVE RemoveTagsFrom(_, _)
RemoveTagsFrom(text, i) ==
    IF i > Len(text) THEN <<>>
    ELSE LET j == FirstClose(text, i + 1)
         IN  IF text[i] = "<" /\ j > i + 1
             THEN RemoveTagsFrom(text, j + 1)
             ELSE <<text[i]>> \o RemoveTagsFrom(text, i + 1)

remove_html_tags(text) == RemoveTagsFrom(text, 1)

\* re.sub(r"\s+", " ", text): every run of whitespace becomes one space.
RECURSIVE CollapseFrom(_, _)
CollapseFrom(text, i) ==
    IF i > Len(text) THEN <<>>
    ELSE IF text[i] \in Whitespace
         THEN IF i > 1 /\ text[i - 1] \in Whitespace
              THEN CollapseFrom(text, i + 1)
              ELSE <<" ">> \o CollapseFrom(text, i + 1)
         ELSE <<text[i]>> \o CollapseFrom(text, i + 1)

\* str.strip()
RECURSIVE Strip(_)
Strip(text) ==
    IF text = <<>> THEN <<>>
    ELSE IF Head(text) \in Whitespace THEN Strip(Tail(text))
    ELSE IF text[Len(text)] \in Whitespace THEN Strip(SubSeq(text, 1, Len(text) - 1))
    ELSE text

normalize_whitespace(text) == Strip(CollapseFrom(text, 1))

RECURSIVE MapDrop(_, _)
\* keep the characters of text outside `drop`
MapDrop(text, drop) ==
    IF text = <<>> THEN <<>>
    ELSE IF Head(text) \in drop THEN MapDrop(Tail(text), drop)
    ELSE <<Head(text)>> \o MapDrop(Tail(text), drop)

Lower(c) == IF c = "A" THEN "a" ELSE c

\* clean(lowercase, extra_whitespace, dashes, bullets), replace_unicode_quotes,
\* clean_non_ascii_chars, remove_punctuation, in this order.
clean_full(text) ==
    LET lowered == [i \in 1..Len(text) |-> Lower(text[i])]
        spaced == Strip(CollapseFrom(lowered, 1))
        ascii == MapDrop(spaced, NonAscii)
    IN  MapDrop(ascii, Punctuation)

\* ----------------------------------------------------- backend/models.py
Sentinel == <<"N", "/", "A">>       \* the string "N/A"
EmptyStr == <<>>
NoneText == <<"None">>              \* Python's None where a string may stand

\* Python truthiness of an Optional[str]: None and "" are falsy.
TruthyText(value) == value # NoneText /\ value # EmptyStr

\* CommonDocument.clean_text_fields: clean_full(value) if value else "N/A"
clean_text_fields(value) == IF TruthyText(value) THEN clean_full(value) ELSE Sentinel

\* clean_url_fields returning what cleaning left, with no `or "N/A"`.
clean_url_fields_no_fallback(value) ==
    IF TruthyText(value) THEN normalize_whitespace(remove_html_tags(value)) ELSE value

\* CommonDocument.clean_url_fields
clean_url_fields(value) ==
    LET cleaned == IF TruthyText(value)
                   THEN normalize_whitespace(remove_html_tags(value))
                   ELSE value
    IN  IF TruthyText(cleaned) THEN cleaned ELSE Sentinel

\* A date string a provider sends is <<"date", format, instant>> when
\* dateutil can read it, whatever the format it is written in, and any other
\* text when it cannot. dateutil.parser.parse(value): the instant, or the
\* exception raised.
parser_parse(value) ==
    IF value = NoneText THEN [exc |-> "TypeError", value |-> 0]
    ELSE IF Len(value) = 3 /\ value[1] = "date" THEN [exc |-> "", value |-> value[3]]
    ELSE [exc |-> "ValueError", value |-> 0]

\* strftime("%Y-%m-%d %H:%M:%S"): the instant at the resolution of a second,
\* which is the resolution of the clock here.
strftime(instant) == instant

\* CommonDocument.clean_date_field; current_timestamp is the module's
\* CURRENT_TIMESTAMP.
clean_date_field(value, current_timestamp) ==
    LET parsed == parser_parse(value)
    IN  IF parsed.exc = "" THEN strftime(parsed.value)
        ELSE current_timestamp             \* except (ValueError, TypeError)

\* The n-th value uuid4() returns in this process: each call a new one.
uuid4(n) == <<"uuid4", n>>

\* CommonDocument(...) with its field validators applied.
CommonDocument(article_id, title, description, url, content, published_at, current_timestamp) ==
    [article_id |-> article_id,
     title |-> clean_text_fields(title),
     description |-> clean_text_fields(description),
     url |-> clean_url_fields(url),
     content |-> clean_text_fields(content),
     published_at |-> clean_date_field(published_at, current_timestamp)]

\* NewsAPIModel(**item): title, url and publishedAt are required strings.
NewsAPIModel_validates(item) ==
    item.title # NoneText /\ item.url # NoneText /\ item.publishedAt # NoneText

\* NewsDataIOModel(**item): article_id is always sent; title, link and pubDate
\* are required strings.
NewsDataIOModel_validates(item) ==
    item.title # NoneText /\ item.link # NoneText /\ item.pubDate # NoneText

\* NewsAPIModel.to_common: no article_id is passed, the default factory draws one.
NewsAPIModel_to_common(item, n, current_timestamp) ==
    CommonDocument(uuid4(n), item.title, item.description, item.url, item.content,
                   item.publishedAt, current_timestamp)

\* NewsDataIOModel.to_common: the provider's article_id is kept.
NewsDataIOModel_to_common(item, current_timestamp) ==
    CommonDocument(<<"newsdata", item.article_id>>, item.title, item.description,
                   item.link, item.content, item.pubDate, current_timestamp)

\* RefinedDocument.from_common
from_common(common) ==
    [doc_id |-> common.article_id,
     full_text |-> common.title \o <<".">> \o common.description,
     metadata |-> [title |-> common.title, url |-> common.url,
                   published_at |-> common.published_at]]

\* Tokens the tokenizer's attention window holds (a property of the model loaded).
AttentionWindow == 6

\* ChunkedDocument.chunk_text: consecutive sections of at most AttentionWindow tokens.
RECURSIVE chunk_text(_)
chunk_text(text) ==
    IF text = <<>> THEN <<>>
    ELSE IF Len(text) <= AttentionWindow THEN <<text>>
    ELSE <<SubSeq(text, 1, AttentionWindow)>>
         \o chunk_text(SubSeq(text, AttentionWindow + 1, Len(text)))

\* hashlib.md5(chunk.encode()).hexdigest(): a function of the chunk's text alone.
md5(text) == <<"md5", text>>

\* ChunkedDocument.from_refined
from_refined(refined_doc) ==
    LET chunks == chunk_text(refined_doc.full_text)
    IN  [k \in 1..Len(chunks) |->
            [doc_id |-> refined_doc.doc_id,
             chunk_id |-> md5(chunks[k]),
             text |-> chunks[k],
             metadata |-> refined_doc.metadata]]

\* ------------------------------------------------- backend/embeddings.py
\* SingletonMeta._instances holds at most the one entry of class TextEmbedder:
\* the set of instances registered, empty or a singleton.
\* `cls not in cls._instances`, the test made before taking the lock.
first_check(registered) == registered = {}

\* __call__ taking the lock and building without looking again.
second_check_skipped(registered) == TRUE

\* `cls not in cls._instances`, the test repeated under the lock.
second_check(registered) == registered = {}

\* The object the n-th run of TextEmbedder.__init__ sets up, from its arguments.
TextEmbedder_init(n, token_limit) == [id |-> n, token_limit |-> token_limit]

\* super().__call__(*args, **kwargs): the n-th run of __init__ returns the
\* object, or raises RuntimeError when the tokenizer or the model fails to load.
type_call(n, token_limit, ok) ==
    IF ok THEN Returned(TextEmbedder_init(n, token_limit)) ELSE Raised("RuntimeError")

\* An object whose __init__ did not finish: it has no tokenizer and no model.
PartialInstance == [id |-> NoneValue, token_limit |-> NoneValue]

\* __call__ registering the object before its __init__ has finished.
register_partial(registered, built) ==
    IF built.exc = "" THEN {built.value} ELSE {PartialInstance}

\* cls._instances[cls] = super().__call__(...): the assignment is made only
\* when the call returns.
register(registered, built) ==
    IF built.exc = "" THEN {built.value} ELSE registered

\* TextEmbedder.__call__(input_text, to_list=True). `ok` is whether tokenization
\* and inference both succeed for this input; hidden is the model's output size.
\* The vector of a text stands for the numbers the model computes from it.
TextEmbedder_call(input_text, ok, hidden) ==
    IF input_text = EmptyStr THEN <<>>
    ELSE IF ~ok THEN <<>>
    ELSE [i \in 1..hidden |-> input_text]

\* EmbeddedDocument.from_chunked
from_chunked(chunked_doc, ok, hidden) ==
    [doc_id |-> chunked_doc.doc_id,
     chunk_id |-> chunked_doc.chunk_id,
     text |-> chunked_doc.text,
     embeddings |-> TextEmbedder_call(chunked_doc.text, ok, hidden),
     metadata |-> chunked_doc.metadata]

\* EmbeddedDocument.to_payload
to_payload(doc) == <<doc.chunk_id, doc.embeddings, doc.metadata>>

\* ---------------------------------------------------- backend/news_loader.py
\* ArticleFetcher.fetch_from_newsapi without its decorator. response is what
\* the provider client does: it raises, or returns the items under "articles".
\* n is the number of uuid4 values drawn so far.
\* A record that fails validation raises ValidationError out of the list
\* comprehension, inside the try block.
fetch_from_newsapi(response, n, current_timestamp) ==
    IF response.raises
    THEN Returned(<<>>)                       \* except Exception: return []
    ELSE IF \E k \in 1..Len(response.items) : ~NewsAPIModel_validates(response.items[k])
    THEN Returned(<<>>)                       \* except Exception: return []
    ELSE Returned([k \in 1..Len(response.items) |->
                      NewsAPIModel_to_common(response.items[k], n + k, current_timestamp)])

\* ArticleFetcher.fetch_from_newsdataapi without its decorator.
fetch_from_newsdataapi(response, current_timestamp) ==
    IF response.raises
    THEN Returned(<<>>)                       \* except Exception: return []
    ELSE IF \E k \in 1..Len(response.items) : ~NewsDataIOModel_validates(response.items[k])
    THEN Returned(<<>>)                       \* except Exception: return []
    ELSE Returned([k \in 1..Len(response.items) |->
                      NewsDataIOModel_to_common(response.items[k], current_timestamp)])

\* error_handler.wrapped_function: whatever the fetch function raises is
\* logged and [] is returned.
error_handler(result) == IF result.exc # "" THEN Returned(<<>>) ELSE result

\* A fetch function that lets the provider client's exception through.
fetch_func_unguarded(p, response, n, current_timestamp) ==
    IF response.raises THEN Raised("Exception")
    ELSE IF p = "fetch_from_newsapi" THEN fetch_from_newsapi(response, n, current_timestamp)
    ELSE fetch_from_newsdataapi(response, current_timestamp)

\* getattr(self.fetcher, for_part)(): the decorated fetch function of a partition.
fetch_func(p, response, n, current_timestamp) ==
    IF p = "fetch_from_newsapi"
    THEN error_handler(fetch_from_newsapi(response, n, current_timestamp))
    ELSE error_handler(fetch_from_newsdataapi(response, current_timestamp))

\* _remove_duplicates keeping, for each url, the last article that has it.
RECURSIVE remove_duplicates_keep_last(_)
remove_duplicates_keep_last(articles) ==
    IF articles = <<>> THEN <<>>
    ELSE IF \E k \in 2..Len(articles) : articles[k].url = Head(articles).url
    THEN remove_duplicates_keep_last(Tail(articles))
    ELSE <<Head(articles)>> \o remove_duplicates_keep_last(Tail(articles))

\* The loop of _remove_duplicates from the i-th article on, with the urls
\* seen and the articles kept so far.
RECURSIVE remove_duplicates_from(_, _, _, _)
remove_duplicates_from(articles, i, seen_urls, unique_articles) ==
    IF i > Len(articles) THEN unique_articles
    ELSE IF articles[i].url \notin seen_urls
    THEN remove_duplicates_from(articles, i + 1, seen_urls \cup {articles[i].url},
                                Append(unique_articles, articles[i]))
    ELSE remove_duplicates_from(articles, i + 1, seen_urls, unique_articles)

\* ArticleFetcher._remove_duplicates
_remove_duplicates(articles) == remove_duplicates_from(articles, 1, {}, <<>>)

\* ArticleFetcher.fetch_all_sources: the sources are called in the order of
\* self.sources, each with what its provider client does; n is the number of
\* uuid4 values drawn so far.
fetch_all_sources(response_newsapi, response_newsdata, n, current_timestamp) ==
    LET first == fetch_func("fetch_from_newsapi", response_newsapi, n, current_timestamp)
        second == fetch_func("fetch_from_newsdataapi", response_newsdata,
                             n + Len(first.value), current_timestamp)
    IN  IF first.exc # "" THEN first
        ELSE IF second.exc # "" THEN second
        ELSE Returned(_remove_duplicates(first.value \o second.value))

\* ----------------------------------------------------------- backend/flow.py
\* next_batch ending the partition when nothing was fetched.
next_batch_stops_on_empty(fetched) ==
    IF fetched.exc # "" THEN fetched
    ELSE IF fetched.value = <<>> THEN Raised("StopIteration")
    ELSE Returned(fetched.value)

\* NewsStreamSource.next_batch, given what self.fetch_func() did.
next_batch(fetched) ==
    IF fetched.exc # "" THEN fetched
    ELSE IF fetched.value = <<>> THEN Returned(<<>>)
    ELSE Returned(fetched.value)

\* __init__ ignoring its resume state.
NewsStreamSource_init_fresh(resume_state, t) == t

\* NewsStreamSource.__init__: the cursor a new partition starts with, built at time t.
NewsStreamSource_init(resume_state, t) == PyOr(resume_state, t)

\* --------------------------------------------------------- backend/qdrant.py
\* client.query_points(query_filter = url matches, limit = 1): the points found.
query_points(points, article_url) ==
    LET found == {pt \in points : pt.payload.url = article_url}
    IN  IF found = {} THEN {} ELSE {CHOOSE pt \in found : TRUE}

\* article_exists letting the exception of the store query through.
article_exists_unguarded(points, article_url, raises) ==
    IF raises THEN Raised("Exception")
    ELSE Returned(Cardinality(query_points(points, article_url)) > 0)

\* article_exists finding nothing, whatever the collection holds.
article_exists_blind(points, article_url, raises) == Returned(FALSE)

\* QdrantVectorSink.article_exists; raises is whether the store query raises.
article_exists(points, article_url, raises) ==
    IF raises THEN Returned(FALSE)             \* except Exception: return False
    ELSE Returned(Cardinality(query_points(points, article_url)) > 0)

\* The PointStruct write_batch builds for a document.
PointStruct(doc) == [id |-> doc.doc_id, vector |-> doc.embeddings, payload |-> doc.metadata]

\* client.upsert(points): the collection accepts the request only when every
\* vector has the size it was created with; an accepted request writes the
\* points in order, a point replacing the one that has its id.
RECURSIVE ApplyUpsert(_, _)
ApplyUpsert(points, staged) ==
    IF staged = <<>> THEN points
    ELSE ApplyUpsert({pt \in points : pt.id # Head(staged).id} \cup {Head(staged)},
                     Tail(staged))

UpsertAccepted(staged, size, raises) ==
    ~raises /\ \A k \in 1..Len(staged) : Len(staged[k].vector) = size

client_upsert(points, staged, size, raises) ==
    IF UpsertAccepted(staged, size, raises) THEN ApplyUpsert(points, staged) ELSE points

\* The upsert of write_batch without its try block.
write_batch_upsert_unguarded(points, staged, size, raises) ==
    IF UpsertAccepted(staged, size, raises)
    THEN Returned(client_upsert(points, staged, size, raises))
    ELSE Raised("Exception")

\* try: self._client.upsert(...) except Exception: logging.error(...). The
\* outcome of the statement and the points the collection holds after it.
write_batch_upsert(points, staged, size, raises) ==
    Returned(client_upsert(points, staged, size, raises))

\* ------------------------------------------------------------------- state
SinkWorkers == {1, 2}
MaxDim == 2
Dims == 1..MaxDim
Threads == 1..MaxThreads
TokenLimits == {256, 128}

\* No _on_search has ended yet on a thread.
NoOutcome == [exc |-> "none", value |-> <<>>]

\* ---------------------------------------------------- backend/settings.py
\* The keys the configuration is asked for, as the caller writes them, and
\* the names the environment may define.
Keys == {<<"k", "e", "y">>, <<"K", "E", "Y">>}
EnvNames == {<<"k", "e", "y">>, <<"K", "E", "Y">>}

UpperChar(c) ==
    IF c = "k" THEN "K" ELSE IF c = "e" THEN "E" ELSE IF c = "y" THEN "Y" ELSE c

\* str.upper()
upper(text) == [i \in 1..Len(text) |-> UpperChar(text[i])]

\* os.getenv(name): the variable's value, None when it is not set.
os_getenv(env, name) == IF name \in DOMAIN env THEN env[name] ELSE NoneText

\* self.config.get(key, default): the file's value, the default when the
\* file has no such key.
config_get(file, key, default) ==
    IF key \in DOMAIN file /\ file[key] # NoneText THEN file[key] ELSE default

\* AppConfig.get asking the file before the environment.
AppConfig_get_file_first(env, file, key, default) ==
    LET value == config_get(file, key, NoneText)
    IN  IF value # NoneText THEN value
        ELSE IF os_getenv(env, upper(key)) # NoneText THEN os_getenv(env, upper(key))
        ELSE default

\* AppConfig.get(key, default)
AppConfig_get(env, file, key, default) ==
    LET value == os_getenv(env, upper(key))
    IN  IF value # NoneText THEN value
        ELSE config_get(file, key, default)

\* fetch_all_sources has not been called yet.
NoCall == [newsapi |-> <<>>, newsdata |-> <<>>, result |-> Raised("none")]

\* AppConfig.get has not been called yet.
NoResult == [key |-> <<>>, default |-> NoneText, value |-> NoneText]

VARIABLES
    now,                      \* the wall clock, seconds
    hidden_size,              \* output size of the embedding model
    max_input_length,         \* TextEmbedder.max_input_length (configuration)
    flow_status,              \* "running" or "crashed"
    restarts,                 \* restarts so far
    checkpoint,               \* per partition: the snapshot the runtime persisted
    part_pc,                  \* per partition: "unbuilt", "idle", "fetched", "closed"
    last_fetched_timestamp,   \* per partition: NewsStreamSource.last_fetched_timestamp
    awake,                    \* per partition: the value next_awake returned last
    fetch_outcome,            \* per partition: what the provider call of the poll in progress did
    ndocs,                    \* CommonDocuments built so far
    inp,                      \* stream "input": documents emitted, not yet transformed
    embedded,                 \* stream "embed": documents waiting for the sink
    sink_pc,                  \* per sink: "idle", "checking", "upsert"
    sink_docs,                \* per sink: the argument of the running write_batch
    sink_i,                   \* per sink: index of the next document to classify
    sink_points,              \* per sink: the local list `points`
    collection,               \* the points of the Qdrant collection
    collection_size,          \* the vector size the collection was created with
    faults,                   \* store calls that raised so far
    instances,                \* SingletonMeta._instances: the TextEmbedder registered
    lock,                     \* SingletonMeta._lock: the thread holding it, 0 when free
    th_pc,                    \* per thread: its position in SingletonMeta.__call__
    th_args,                  \* per thread: the token_limit its request passes
    returned,                 \* the instances construction requests have returned
    init_runs,                \* runs of TextEmbedder.__init__ started so far
    load_failures,            \* runs of TextEmbedder.__init__ that raised
    th_question,              \* per thread: the cleaned question of the search it serves
    th_embedding,             \* per thread: the local `embeddings` of query_index
    search_outcome,           \* per thread: how its last _on_search ended
    environ,                  \* os.environ: the value of a variable, None when unset
    config_file,              \* AppConfig.config: the value of a key, None when absent
    cfg_result,               \* the last call of AppConfig.get and what it returned
    CURRENT_TIMESTAMP,        \* models.CURRENT_TIMESTAMP, set when the module is loaded
    feed,                     \* per partition: the records its provider has to return
    worker_count,             \* workers of the run, each with its own sink partition
    unique_articles           \* the last call of fetch_all_sources and what it returned

source_vars == <<part_pc, last_fetched_timestamp, awake, fetch_outcome>>
sink_vars == <<sink_pc, sink_docs, sink_i, sink_points>>
embedder_vars == <<instances, lock, th_pc, th_args, returned, init_runs, load_failures>>
search_vars == <<th_question, th_embedding, search_outcome>>
embedder_vars_but_pc == <<instances, lock, th_args, returned, init_runs, load_failures>>
settings_vars == <<environ, config_file, cfg_result>>

\* What no step of the dataflow changes: its configuration and the state of
\* the components that live beside it in the process.
config_vars == <<hidden_size, max_input_length, collection_size, embedder_vars, feed,
                 search_vars, settings_vars, worker_count, unique_articles>>

\* What the dataflow and its store consist of.
dataflow_vars == <<now, hidden_size, max_input_length, collection_size, flow_status,
                   restarts, CURRENT_TIMESTAMP, feed, checkpoint, source_vars, ndocs,
                   inp, embedded, sink_vars, collection, faults, worker_count,
                   unique_articles>>

vars == <<dataflow_vars, embedder_vars, search_vars, settings_vars>>

\* ------------------------------------------------------------------ inputs
\* The records the providers can return: two NewsAPI articles with different
\* titles that share a url, and a NewsData article with another url.
ShortTitle == <<"a">>
LongTitle == <<"b", "c", "d">>
UrlX == <<"x">>
UrlY == <<"y">>

PublishedDate == <<"date", "iso", 0>>

NewsApiItems ==
    {[title |-> ShortTitle, description |-> EmptyStr, url |-> UrlX,
      content |-> NoneText, publishedAt |-> PublishedDate],
     [title |-> LongTitle, description |-> EmptyStr, url |-> UrlX,
      content |-> NoneText, publishedAt |-> PublishedDate]}

NewsDataItems ==
    {[article_id |-> "n1", title |-> ShortTitle, description |-> EmptyStr, link |-> UrlY,
      content |-> NoneText, pubDate |-> PublishedDate]}

\* flow._build_output and QdrantVectorOutput.__init__: the size the collection
\* is created with when it does not exist yet.
build_output_size(model_max_input_length) == model_max_input_length

\* The usual records of the two providers.
UsualFeed ==
    [p \in Parts |-> IF p = "fetch_from_newsapi" THEN NewsApiItems ELSE NewsDataItems]

\* The process has started: no partition is built yet, no thread has asked
\* for the embedder, backend.models has just been imported. h and m are the
\* model's output size and configured input length, records what the
\* providers have, points what the collection holds, env and file the
\* environment and the configuration file, workers the number of workers the
\* runtime was started with.
StartWorkers(workers, h, m, records, points, env, file) ==
    /\ worker_count = workers
    /\ unique_articles = NoCall
    /\ now = 0
    /\ hidden_size = h
    /\ max_input_length = m
    /\ collection_size = build_output_size(m)
    /\ flow_status = "running"
    /\ restarts = 0
    /\ checkpoint = [p \in Parts |-> NoneValue]
    /\ part_pc = [p \in Parts |-> "unbuilt"]
    /\ last_fetched_timestamp = [p \in Parts |-> NoneValue]
    /\ awake = [p \in Parts |-> NoneValue]
    /\ fetch_outcome = [p \in Parts |-> "none"]
    /\ ndocs = 0
    /\ inp = <<>>
    /\ embedded = <<>>
    /\ sink_pc = [w \in SinkWorkers |-> "idle"]
    /\ sink_docs = [w \in SinkWorkers |-> <<>>]
    /\ sink_i = [w \in SinkWorkers |-> 1]
    /\ sink_points = [w \in SinkWorkers |-> <<>>]
    /\ collection = points
    /\ faults = 0
    /\ instances = {}
    /\ lock = 0
    /\ th_pc = [t \in Threads |-> "idle"]
    /\ th_args = [t \in Threads |-> 256]
    /\ returned = {}
    /\ init_runs = 0
    /\ load_failures = 0
    /\ th_question = [t \in Threads |-> NoneText]
    /\ th_embedding = [t \in Threads |-> <<>>]
    /\ search_outcome = [t \in Threads |-> NoOutcome]
    /\ environ = env
    /\ config_file = file
    /\ cfg_result = NoResult
    /\ CURRENT_TIMESTAMP = 0
    /\ feed = records

\* The same start of a run with one worker.
Start(h, m, records, points, env, file) ==
    StartWorkers(1, h, m, records, points, env, file)

NoEnviron == [name \in EnvNames |-> NoneText]
NoConfigFile == [key \in Keys |-> NoneText]

\* The dataflow has started on a deployment whose collection did not exist:
\* it was just created, empty.
Init ==
    \E h, m \in Dims : Start(h, m, UsualFeed, {}, NoEnviron, NoConfigFile)

Min(a, b) == IF a < b THEN a ELSE b

\* What the provider client can do on one call, with room for `room` more
\* documents: it raises, or it returns some of the records the provider has,
\* each listed once.
Responses(p, room) ==
    {[raises |-> TRUE, items |-> <<>>]} \cup
    {[raises |-> FALSE, items |-> q] :
        q \in {r \in SeqsUpTo(feed[p], Min(MaxBatch, room)) :
                  \A i, k \in 1..Len(r) : i # k => r[i] # r[k]}}

\* Whether the provider model of partition p accepts a record.
Validates(p, item) ==
    IF p = "fetch_from_newsapi" THEN NewsAPIModel_validates(item)
    ELSE NewsDataIOModel_validates(item)

\* The records of a response converted before the list comprehension ends:
\* all of them, or those before the first that fails validation.
RECURSIVE Converted(_, _)
Converted(p, items) ==
    IF items = <<>> \/ ~Validates(p, Head(items)) THEN 0
    ELSE 1 + Converted(p, Tail(items))

\* What the provider call of a poll did: it raised, or it returned no record,
\* records that all validate, records none of which validates, or both kinds.
Outcome(p, response) ==
    IF response.raises THEN "error"
    ELSE IF response.items = <<>> THEN "empty"
    ELSE IF \A item \in Range(response.items) : Validates(p, item) THEN "articles"
    ELSE IF \A item \in Range(response.items) : ~Validates(p, item) THEN "invalid"
    ELSE "mixed"

\* ----------------------------------------------------------------- actions
Running == flow_status = "running"

\* next_awake backing off after a poll that brought nothing.
next_awake_backoff(p, t) ==
    IF fetch_outcome[p] \in {"empty", "error"}
    THEN t + 2 * PollIntervalSeconds
    ELSE t + PollIntervalSeconds

\* NewsStreamSource.next_awake of partition p, called at time t.
next_awake(p, t) == t + PollIntervalSeconds

\* The runtime builds every partition when the dataflow starts, before it
\* spends time polling.
AllBuilt == \A p \in Parts : part_pc[p] # "unbuilt"

\* One second passes.
Tick ==
    /\ AllBuilt
    /\ now < MaxTime
    /\ now' = now + 1
    /\ UNCHANGED <<config_vars, flow_status, restarts, CURRENT_TIMESTAMP, checkpoint, source_vars, ndocs,
                   inp, embedded, sink_vars, collection, faults>>

\* The worker sleeps until the next partition is due: the clock moves to the
\* earliest awake time that lies ahead.
Due == {awake[p] : p \in {q \in Parts : part_pc[q] = "idle" /\ awake[q] > now}}

Sleep ==
    /\ AllBuilt
    /\ Due # {}
    /\ \E t \in Due :
          /\ \A u \in Due : t <= u
          /\ t <= MaxTime
          /\ now' = t
    /\ UNCHANGED <<config_vars, flow_status, restarts, CURRENT_TIMESTAMP, checkpoint, source_vars, ndocs,
                   inp, embedded, sink_vars, collection, faults>>

\* NewsStreamInput.build_part(step_id, for_part, resume_state): the runtime
\* passes the partition's persisted snapshot, None when there is none, and asks
\* the new partition for its first awake time.
BuildPart(p) ==
    /\ Running
    /\ part_pc[p] = "unbuilt"
    /\ last_fetched_timestamp' =
           [last_fetched_timestamp EXCEPT ![p] = NewsStreamSource_init(checkpoint[p], now)]
    /\ awake' = [awake EXCEPT ![p] = next_awake(p, now)]
    /\ part_pc' = [part_pc EXCEPT ![p] = "idle"]
    /\ UNCHANGED <<now, config_vars, flow_status, restarts, CURRENT_TIMESTAMP, checkpoint, fetch_outcome,
                   ndocs, inp, embedded, sink_vars, collection, faults>>

\* The runtime polls an awake partition: NewsStreamSource.next_batch. A list is
\* emitted downstream; StopIteration would close the partition and any other
\* exception would stop the dataflow.
NextBatch(p) ==
    /\ Running
    /\ part_pc[p] = "idle"
    /\ now >= awake[p]
    /\ \E response \in Responses(p, MaxDocs - ndocs) :
          LET result == next_batch(fetch_func(p, response, ndocs, CURRENT_TIMESTAMP))
          IN  /\ fetch_outcome' = [fetch_outcome EXCEPT ![p] = Outcome(p, response)]
              /\ ndocs' = ndocs + Converted(p, response.items)
              /\ IF result.exc = ""
                 THEN /\ inp' = inp \o result.value
                      /\ part_pc' = [part_pc EXCEPT ![p] = "fetched"]
                      /\ UNCHANGED flow_status
                 ELSE IF result.exc = "StopIteration"
                 THEN /\ part_pc' = [part_pc EXCEPT ![p] = "closed"]
                      /\ UNCHANGED <<inp, flow_status>>
                 ELSE /\ flow_status' = "crashed"
                      /\ UNCHANGED <<inp, part_pc>>
    /\ UNCHANGED <<now, config_vars, restarts, CURRENT_TIMESTAMP, checkpoint, last_fetched_timestamp, awake,
                   embedded, sink_vars, collection, faults>>

\* After the batch the runtime asks NewsStreamSource.next_awake.
NextAwake(p) ==
    /\ Running
    /\ part_pc[p] = "fetched"
    /\ awake' = [awake EXCEPT ![p] = next_awake(p, now)]
    /\ part_pc' = [part_pc EXCEPT ![p] = "idle"]
    /\ fetch_outcome' = [fetch_outcome EXCEPT ![p] = "none"]
    /\ UNCHANGED <<now, config_vars, flow_status, restarts, CURRENT_TIMESTAMP, checkpoint,
                   last_fetched_timestamp, ndocs, inp, embedded,
                   sink_vars, collection, faults>>

\* NewsStreamSource.snapshot
snapshot(p) == last_fetched_timestamp[p]

\* The runtime persists a partition's snapshot at the end of an epoch.
Snapshot(p) ==
    /\ Running
    /\ part_pc[p] = "idle"
    /\ checkpoint[p] # snapshot(p)
    /\ checkpoint' = [checkpoint EXCEPT ![p] = snapshot(p)]
    /\ UNCHANGED <<now, config_vars, flow_status, restarts, CURRENT_TIMESTAMP, source_vars, ndocs, inp,
                   embedded, sink_vars, collection, faults>>

\* The process stops and is started again: what was in flight is gone, the
\* checkpoint and the collection persist.
Restart ==
    /\ restarts < MaxRestarts
    /\ \E p \in Parts : part_pc[p] # "unbuilt"
    /\ restarts' = restarts + 1
    /\ CURRENT_TIMESTAMP' = now              \* backend.models is imported again
    /\ flow_status' = "running"
    /\ part_pc' = [p \in Parts |-> "unbuilt"]
    /\ last_fetched_timestamp' = [p \in Parts |-> NoneValue]
    /\ awake' = [p \in Parts |-> NoneValue]
    /\ fetch_outcome' = [p \in Parts |-> "none"]
    /\ inp' = <<>>
    /\ embedded' = <<>>
    /\ sink_pc' = [w \in SinkWorkers |-> "idle"]
    /\ sink_docs' = [w \in SinkWorkers |-> <<>>]
    /\ sink_i' = [w \in SinkWorkers |-> 1]
    /\ sink_points' = [w \in SinkWorkers |-> <<>>]
    /\ UNCHANGED <<now, config_vars, checkpoint, ndocs, collection, faults>>

\* flow.build: refine (map), chunkenize (flat_map) and embed (map) applied to
\* the next document of the input stream. oks[k] is whether tokenization and
\* inference succeed for the k-th chunk.
Stages(common, oks) ==
    LET chunked == from_refined(from_common(common))
    IN  [k \in 1..Len(chunked) |-> from_chunked(chunked[k], oks[k], hidden_size)]

Transform ==
    /\ Running
    /\ inp # <<>>
    /\ \E oks \in [1..Len(from_refined(from_common(Head(inp)))) -> BOOLEAN] :
          embedded' = embedded \o Stages(Head(inp), oks)
    /\ inp' = Tail(inp)
    /\ UNCHANGED <<now, config_vars, flow_status, restarts, CURRENT_TIMESTAMP, checkpoint, source_vars,
                   ndocs, sink_vars, collection, faults>>

\* Whether a store call may raise now (bounded) and the count after it.
MayRaise(raises) == raises => faults < MaxFaults
Faults(raises) == IF raises THEN faults + 1 ELSE faults

\* The runtime hands the sink partition of worker w a batch:
\* QdrantVectorSink.write_batch(documents) starts with points = [].
WriteBatch(w) ==
    /\ Running
    /\ w <= worker_count
    /\ sink_pc[w] = "idle"
    /\ \E k \in 1..Len(embedded) :
          /\ sink_docs' = [sink_docs EXCEPT ![w] = SubSeq(embedded, 1, k)]
          /\ embedded' = SubSeq(embedded, k + 1, Len(embedded))
    /\ sink_i' = [sink_i EXCEPT ![w] = 1]
    /\ sink_points' = [sink_points EXCEPT ![w] = <<>>]
    /\ sink_pc' = [sink_pc EXCEPT ![w] = "checking"]
    /\ UNCHANGED <<now, config_vars, flow_status, restarts, CURRENT_TIMESTAMP, checkpoint, source_vars,
                   ndocs, inp, collection, faults>>

\* The loop of write_batch staging the document whatever the check said.
staged_after_all(points, doc, exists) == Append(points, PointStruct(doc))

\* One turn of the loop of write_batch: the existence check of the next
\* document, which is staged when no article with its url is found.
staged_after(points, doc, exists) ==
    IF ~exists THEN Append(points, PointStruct(doc)) ELSE points

\* An exception that left article_exists would leave write_batch and stop the
\* dataflow.
Classify(w) ==
    /\ Running
    /\ sink_pc[w] = "checking"
    /\ \E raises \in BOOLEAN :
          /\ MayRaise(raises)
          /\ faults' = Faults(raises)
          /\ LET doc == sink_docs[w][sink_i[w]]
                 exists == article_exists(collection, doc.metadata.url, raises)
             IN  IF exists.exc = ""
                 THEN /\ sink_points' =
                             [sink_points EXCEPT
                                 ![w] = staged_after(sink_points[w], doc, exists.value)]
                      /\ sink_i' = [sink_i EXCEPT ![w] = sink_i[w] + 1]
                      /\ sink_pc' = [sink_pc EXCEPT ![w] =
                             IF sink_i[w] = Len(sink_docs[w]) THEN "upsert" ELSE "checking"]
                      /\ UNCHANGED flow_status
                 ELSE /\ flow_status' = "crashed"
                      /\ UNCHANGED <<sink_points, sink_i, sink_pc>>
    /\ UNCHANGED <<now, config_vars, restarts, CURRENT_TIMESTAMP, checkpoint, source_vars,
                   ndocs, inp, embedded, sink_docs, collection>>

\* The end of write_batch: one upsert of the staged points when there are
\* any; an exception of the upsert is logged and the batch is dropped.
\* write_batch returns: its locals are gone.
SinkReturns(w) ==
    /\ sink_pc' = [sink_pc EXCEPT ![w] = "idle"]
    /\ sink_docs' = [sink_docs EXCEPT ![w] = <<>>]
    /\ sink_i' = [sink_i EXCEPT ![w] = 1]
    /\ sink_points' = [sink_points EXCEPT ![w] = <<>>]

Upsert(w) ==
    /\ Running
    /\ sink_pc[w] = "upsert"
    /\ IF sink_points[w] # <<>>
       THEN \E raises \in BOOLEAN :
               /\ MayRaise(raises)
               /\ faults' = Faults(raises)
               /\ LET result == write_batch_upsert(collection, sink_points[w],
                                                   collection_size, raises)
                  IN  IF result.exc = ""
                      THEN /\ collection' = result.value
                           /\ SinkReturns(w)
                           /\ UNCHANGED flow_status
                      ELSE /\ flow_status' = "crashed"
                           /\ UNCHANGED <<collection, sink_vars>>
       ELSE /\ SinkReturns(w)
            /\ UNCHANGED <<collection, faults, flow_status>>
    /\ UNCHANGED <<now, config_vars, restarts, CURRENT_TIMESTAMP, checkpoint, source_vars,
                   ndocs, inp, embedded>>

\* ------------------------------------------ TextEmbedder(...) by threads
\* A thread calls TextEmbedder(config, token_limit = a): SingletonMeta.__call__.
SingletonCall(t) ==
    /\ th_pc[t] = "idle"
    /\ \E a \in TokenLimits : th_args' = [th_args EXCEPT ![t] = a]
    /\ th_pc' = [th_pc EXCEPT ![t] = "check"]
    /\ UNCHANGED <<dataflow_vars, search_vars, settings_vars, instances, lock, returned, init_runs, load_failures>>

\* if cls not in cls._instances:
FirstCheck(t) ==
    /\ th_pc[t] = "check"
    /\ th_pc' = [th_pc EXCEPT ![t] = IF first_check(instances) THEN "acquire" ELSE "return"]
    /\ UNCHANGED <<dataflow_vars, search_vars, settings_vars, instances, lock, th_args, returned, init_runs,
                   load_failures>>

\* with cls._lock: the thread waits until the lock is free.
Acquire(t) ==
    /\ th_pc[t] = "acquire"
    /\ lock = 0
    /\ lock' = t
    /\ th_pc' = [th_pc EXCEPT ![t] = "locked"]
    /\ UNCHANGED <<dataflow_vars, search_vars, settings_vars, instances, th_args, returned, init_runs, load_failures>>

\* if cls not in cls._instances: (under the lock); super().__call__ begins
\* a run of __init__ when the test passes.
SecondCheck(t) ==
    /\ th_pc[t] = "locked"
    /\ IF second_check(instances)
       THEN /\ init_runs' = init_runs + 1
            /\ th_pc' = [th_pc EXCEPT ![t] = "init"]
       ELSE /\ th_pc' = [th_pc EXCEPT ![t] = "release"]
            /\ UNCHANGED init_runs
    /\ UNCHANGED <<dataflow_vars, search_vars, settings_vars, instances, lock, th_args, returned, load_failures>>

\* TextEmbedder.__init__ loads the tokenizer and the model. When the load
\* succeeds the new object is registered in _instances; when it raises, the
\* RuntimeError leaves the with block, which frees the lock, and reaches the
\* caller: _on_search, which does not catch it, when the request serves a search.
InitLoad(t) ==
    /\ th_pc[t] = "init"
    /\ \E ok \in BOOLEAN :
          LET built == type_call(init_runs, th_args[t], ok)
          IN  /\ instances' = register(instances, built)
              /\ IF built.exc = ""
                 THEN /\ th_pc' = [th_pc EXCEPT ![t] = "release"]
                      /\ UNCHANGED <<lock, load_failures, search_vars>>
                 ELSE /\ load_failures < MaxLoadFailures
                      /\ load_failures' = load_failures + 1
                      /\ lock' = 0
                      /\ th_pc' = [th_pc EXCEPT ![t] = "idle"]
                      /\ IF th_question[t] # NoneText
                         THEN /\ search_outcome' =
                                     [search_outcome EXCEPT ![t] = built]
                              /\ th_question' = [th_question EXCEPT ![t] = NoneText]
                         ELSE UNCHANGED <<search_outcome, th_question>>
                      /\ UNCHANGED th_embedding
    /\ UNCHANGED <<dataflow_vars, settings_vars, th_args, returned, init_runs>>

\* The with block ends: the lock is released.
Release(t) ==
    /\ th_pc[t] = "release"
    /\ lock' = 0
    /\ th_pc' = [th_pc EXCEPT ![t] = "return"]
    /\ UNCHANGED <<dataflow_vars, search_vars, settings_vars, instances, th_args, returned, init_runs, load_failures>>

\* return cls._instances[cls]; a request made by _on_search goes on to
\* query_index.
Return(t) ==
    /\ th_pc[t] = "return"
    /\ returned' = returned \cup instances
    /\ th_pc' = [th_pc EXCEPT ![t] = IF th_question[t] # NoneText THEN "embed" ELSE "idle"]
    /\ UNCHANGED <<dataflow_vars, search_vars, settings_vars, instances, lock, th_args,
                   init_runs, load_failures>>

\* ----------------------------------------------------------- specification
\* One run of the dataflow on one worker: the calls of write_batch do not overlap.
Next ==
    \/ Sleep
    \/ \E p \in Parts : BuildPart(p)
    \/ \E p \in Parts : NextBatch(p)
    \/ \E p \in Parts : NextAwake(p)
    \/ Transform
    \/ WriteBatch(1)
    \/ Classify(1)
    \/ Upsert(1)

Spec == Init /\ [][Next]_vars

\* The same run on a deployment whose collection has the size of the model's
\* vectors.
InitSink == Start(1, 1, UsualFeed, {}, NoEnviron, NoConfigFile)

SpecSink == InitSink /\ [][Next]_vars

\* ------------------------------------------------ records of any content
\* The characters of the text fields and of the urls the providers send.
TextChars == {"a", "A", "!", "e'", " "}
UrlChars == {"x", " ", "<", ">"}

TextValues == SeqsUpTo(TextChars, MaxTextLen) \cup {NoneText}
UrlValues == SeqsUpTo(UrlChars, MaxUrlLen) \cup {NoneText}
Unparseable == <<"2024-13-40">>
DateValues == {<<"date", "iso", 3>>, <<"date", "long", 3>>, Unparseable, NoneText}

BaseNewsApiItem == CHOOSE item \in NewsApiItems : item.title = ShortTitle
BaseNewsDataItem == CHOOSE item \in NewsDataItems : item.title = ShortTitle

\* The records that differ from a base record in one field.
NewsApiRecords ==
    {[BaseNewsApiItem EXCEPT !.title = v] : v \in TextValues}
    \cup {[BaseNewsApiItem EXCEPT !.description = v] : v \in TextValues}
    \cup {[BaseNewsApiItem EXCEPT !.content = v] : v \in TextValues}
    \cup {[BaseNewsApiItem EXCEPT !.url = v] : v \in UrlValues}
    \cup {[BaseNewsApiItem EXCEPT !.publishedAt = v] : v \in DateValues}

NewsDataRecords ==
    {[BaseNewsDataItem EXCEPT !.title = v] : v \in TextValues}
    \cup {[BaseNewsDataItem EXCEPT !.description = v] : v \in TextValues}
    \cup {[BaseNewsDataItem EXCEPT !.content = v] : v \in TextValues}
    \cup {[BaseNewsDataItem EXCEPT !.link = v] : v \in UrlValues}
    \cup {[BaseNewsDataItem EXCEPT !.pubDate = v] : v \in DateValues}

\* One provider has a single record to return, of any content, or a record
\* its model rejects beside a well-formed one; the other provider has none.
OneRecordFeeds(records, base, p) ==
    {{r} : r \in records} \cup {{r, base} : r \in {x \in records : ~Validates(p, x)}}

Feeds ==
    {[p \in Parts |-> IF p = "fetch_from_newsapi" THEN f ELSE {}] :
        f \in OneRecordFeeds(NewsApiRecords, BaseNewsApiItem, "fetch_from_newsapi")}
    \cup
    {[p \in Parts |-> IF p = "fetch_from_newsapi" THEN {} ELSE f] :
        f \in OneRecordFeeds(NewsDataRecords, BaseNewsDataItem, "fetch_from_newsdataapi")}

\* The start of a run with any of these feeds.
InitNormalize ==
    \E records \in Feeds : Start(1, 1, records, {}, NoEnviron, NoConfigFile)

\* The partitions polling such providers; what they emit stays in the input
\* stream.
NextNormalize ==
    \/ Sleep
    \/ \E p \in Parts : BuildPart(p)
    \/ \E p \in Parts : NextBatch(p)
    \/ \E p \in Parts : NextAwake(p)

SpecNormalize == InitNormalize /\ [][NextNormalize]_vars

\* The input side across restarts: what the partitions emit stays in the
\* input stream.
NextSource ==
    \/ Tick
    \/ \E p \in Parts : BuildPart(p)
    \/ \E p \in Parts : NextBatch(p)
    \/ \E p \in Parts : NextAwake(p)
    \/ \E p \in Parts : Snapshot(p)
    \/ Restart

\* No stage or sink runs here, so one model configuration is enough.
InitSource == Start(1, 1, UsualFeed, {}, NoEnviron, NoConfigFile)

SpecSource == InitSource /\ [][NextSource]_vars

\* Threads of one process requesting the TextEmbedder, in any interleaving.
NextEmbedder ==
    \/ \E t \in Threads : SingletonCall(t)
    \/ \E t \in Threads : FirstCheck(t)
    \/ \E t \in Threads : Acquire(t)
    \/ \E t \in Threads : SecondCheck(t)
    \/ \E t \in Threads : InitLoad(t)
    \/ \E t \in Threads : Release(t)
    \/ \E t \in Threads : Return(t)

InitEmbedder == Start(1, 1, UsualFeed, {}, NoEnviron, NoConfigFile)

SpecEmbedder == InitEmbedder /\ [][NextEmbedder]_vars

\* ------------------------------------------- frontend: a search by a session
\* What earlier runs of the dataflow left in the collection: one point per
\* chunk, its vector standing for the chunk's text.
StoredPoints ==
    {[id |-> uuid4(k),
      vector |-> <<txt>>,
      payload |-> [title |-> txt, url |-> <<"u", k>>, published_at |-> 0]] :
        <<k, txt>> \in {<<1, <<"a">>>>, <<2, <<"a", "a">>>>}}

\* The similarity the store computes between the query and a stored vector.
score(query_vector, vector) == IF vector = query_vector THEN 1 ELSE 0

\* The orders in which the store may rank the points: best score first.
Rankings(points, query_vector) ==
    {hits \in [1..Cardinality(points) -> points] :
        /\ \A i, j \in 1..Cardinality(points) : i # j => hits[i] # hits[j]
        /\ \A i, j \in 1..Cardinality(points) :
              i < j => score(query_vector, hits[i].vector) >=
                       score(query_vector, hits[j].vector)}

\* self.client.search(collection_name, query_vector, limit, with_payload=True):
\* the outcomes the call may have. The store refuses a query vector whose
\* length is not the collection's size, an empty one included; a transport or
\* server failure raises as well.
client_search(points, query_vector, size, limit, raises) ==
    IF raises \/ Len(query_vector) # size
    THEN {Raised("UnexpectedResponse")}
    ELSE {Returned([k \in 1..Min(limit, Len(hits)) |->
                       [score |-> score(query_vector, hits[k].vector),
                        payload |-> hits[k].payload]]) :
             hits \in Rankings(points, query_vector)}

\* QdrantSearchClass.query_index after the embedder answered: searched is the
\* outcome of self.client.search. Nothing catches what the search raises.
query_index(searched) ==
    IF searched.exc # "" THEN searched
    ELSE Returned([k \in 1..Len(searched.value) |->
                      [score |-> searched.value[k].score,
                       title |-> searched.value[k].payload.title,
                       date |-> searched.value[k].payload.published_at,
                       url |-> searched.value[k].payload.url]])

top_k == 10

\* What a user may type into the search box.
Questions == TextValues \ {NoneText}

\* Every variable of the dataflow but the count of store failures.
search_frame ==
    <<now, hidden_size, max_input_length, collection_size, flow_status, restarts,
      CURRENT_TIMESTAMP, feed, checkpoint, source_vars, ndocs, inp, embedded,
      sink_vars, collection, worker_count, unique_articles>>

\* NewsSearchApp._on_search, up to the call TextEmbedder(self.config): the
\* session's script thread reads the question; an empty one ends the handler
\* with nothing done.
OnSearch(t) ==
    /\ th_pc[t] = "idle"
    /\ \E question \in Questions :
          /\ TruthyText(question)
          /\ th_question' = [th_question EXCEPT ![t] = clean_full(question)]
    /\ th_args' = [th_args EXCEPT ![t] = 256]
    /\ th_embedding' = [th_embedding EXCEPT ![t] = <<>>]
    /\ search_outcome' = [search_outcome EXCEPT ![t] = NoOutcome]
    /\ th_pc' = [th_pc EXCEPT ![t] = "check"]
    /\ UNCHANGED <<dataflow_vars, settings_vars, instances, lock, returned, init_runs,
                   load_failures>>

\* query_index: embeddings = embedder(query_text, to_list=True)
Embed(t) ==
    /\ th_pc[t] = "embed"
    /\ \E ok \in BOOLEAN :
          th_embedding' =
              [th_embedding EXCEPT ![t] = TextEmbedder_call(th_question[t], ok, hidden_size)]
    /\ th_pc' = [th_pc EXCEPT ![t] = "search"]
    /\ UNCHANGED <<dataflow_vars, settings_vars, embedder_vars_but_pc, th_question,
                   search_outcome>>

\* query_index: self.client.search(...) and the list built from its hits;
\* _on_search then renders the articles, or is left by the exception.
Search(t) ==
    /\ th_pc[t] = "search"
    /\ \E raises \in BOOLEAN :
          /\ MayRaise(raises)
          /\ faults' = Faults(raises)
          /\ \E searched \in client_search(collection, th_embedding[t], collection_size,
                                           top_k, raises) :
                search_outcome' = [search_outcome EXCEPT ![t] = query_index(searched)]
    /\ th_question' = [th_question EXCEPT ![t] = NoneText]
    /\ th_pc' = [th_pc EXCEPT ![t] = "idle"]
    /\ UNCHANGED <<search_frame, settings_vars, embedder_vars_but_pc, th_embedding>>

NextSearch ==
    \/ \E t \in Threads : OnSearch(t)
    \/ \E t \in Threads : FirstCheck(t)
    \/ \E t \in Threads : Acquire(t)
    \/ \E t \in Threads : SecondCheck(t)
    \/ \E t \in Threads : InitLoad(t)
    \/ \E t \in Threads : Release(t)
    \/ \E t \in Threads : Return(t)
    \/ \E t \in Threads : Embed(t)
    \/ \E t \in Threads : Search(t)

\* The application has started over a collection the dataflow has filled.
InitSearch ==
    \E points \in SUBSET StoredPoints :
        Start(1, 1, UsualFeed, points, NoEnviron, NoConfigFile)

SpecSearch == InitSearch /\ [][NextSearch]_vars

\* ------------------------------------------------- configuration lookups
\* What a variable of the environment may hold (None: not set) and what the
\* file may give a key (None: the key is absent).
EnvValues == {NoneText, EmptyStr, <<"e">>}
FileValues == {NoneText, <<"f">>, <<"e">>}
Defaults == {NoneText, <<"d">>}

\* A caller asks the configuration for a key.
ConfigGet ==
    /\ \E key \in Keys, default \in Defaults :
          cfg_result' = [key |-> key, default |-> default,
                         value |-> AppConfig_get(environ, config_file, key, default)]
    /\ UNCHANGED <<dataflow_vars, embedder_vars, search_vars, environ, config_file>>

NextConfig == ConfigGet

\* A process has started with some environment and some configuration file.
InitConfig ==
    \E env \in [EnvNames -> EnvValues], file \in [Keys -> FileValues] :
        Start(1, 1, UsualFeed, {}, env, file)

SpecConfig == InitConfig /\ [][NextConfig]_vars

\* ------------------------------------------- a run with one or two workers
\* Both providers have the same story under the same url.
SameUrlFeed ==
    [p \in Parts |->
        IF p = "fetch_from_newsapi" THEN {BaseNewsApiItem}
        ELSE {[BaseNewsDataItem EXCEPT !.link = BaseNewsApiItem.url]}]

\* QdrantVectorOutput.build is called once per worker: every worker has a
\* sink partition, all of them over self.client.
NextWorkers ==
    \/ Sleep
    \/ \E p \in Parts : BuildPart(p)
    \/ \E p \in Parts : NextBatch(p)
    \/ \E p \in Parts : NextAwake(p)
    \/ Transform
    \/ \E w \in SinkWorkers : WriteBatch(w)
    \/ \E w \in SinkWorkers : Classify(w)
    \/ \E w \in SinkWorkers : Upsert(w)

InitWorkers ==
    \E workers \in SinkWorkers :
        StartWorkers(workers, 1, 1, SameUrlFeed, {}, NoEnviron, NoConfigFile)

SpecWorkers == InitWorkers /\ [][NextWorkers]_vars

\* --------------------------------------------- records that have no url
\* Two different stories, one at each provider, both sent with an empty url.
NoUrlFeed ==
    [p \in Parts |->
        IF p = "fetch_from_newsapi" THEN {[BaseNewsApiItem EXCEPT !.url = EmptyStr]}
        ELSE {[BaseNewsDataItem EXCEPT !.link = EmptyStr, !.title = <<"b">>]}]

InitNoUrl == Start(1, 1, NoUrlFeed, {}, NoEnviron, NoConfigFile)

SpecNoUrl == InitNoUrl /\ [][Next]_vars

\* ------------------------------------------------ fetch_all_sources calls
\* What the two providers have: stories that share a url within a provider
\* and across the providers, and a NewsData record without link.
ManyUrlsFeed ==
    [p \in Parts |->
        IF p = "fetch_from_newsapi"
        THEN NewsApiItems \cup {[BaseNewsApiItem EXCEPT !.url = UrlY]}
        ELSE NewsDataItems \cup
             {[BaseNewsDataItem EXCEPT !.article_id = "n2", !.link = UrlX],
              [BaseNewsDataItem EXCEPT !.article_id = "n3", !.link = NoneText]}]

\* Every variable but unique_articles.
loader_frame ==
    <<now, hidden_size, max_input_length, collection_size, flow_status, restarts,
      CURRENT_TIMESTAMP, feed, checkpoint, source_vars, ndocs, inp, embedded,
      sink_vars, collection, faults, worker_count, embedder_vars, search_vars,
      settings_vars>>

\* A caller runs fetch_all_sources: each provider client raises or answers.
FetchAllSources ==
    /\ \E response_newsapi \in Responses("fetch_from_newsapi", MaxBatch),
          response_newsdata \in Responses("fetch_from_newsdataapi", MaxBatch) :
          unique_articles' =
              [newsapi |-> response_newsapi,
               newsdata |-> response_newsdata,
               result |-> fetch_all_sources(response_newsapi, response_newsdata,
                                            0, CURRENT_TIMESTAMP)]
    /\ UNCHANGED loader_frame

NextLoader == FetchAllSources

InitLoader == Start(1, 1, ManyUrlsFeed, {}, NoEnviron, NoConfigFile)

SpecLoader == InitLoader /\ [][NextLoader]_vars

\* ------------------------------------------------------------------ claims
\* Nothing is in flight between the input and the collection.
Quiescent ==
    /\ inp = <<>>
    /\ embedded = <<>>
    /\ \A w \in SinkWorkers : sink_pc[w] = "idle"

PointsWithUrl(points, url) == {pt \in points : pt.payload.url = url}

\* write_batch of sink w returns in this step.
BatchEnds(w) == sink_pc[w] = "upsert" /\ sink_pc'[w] = "idle"

\* C1: when a write_batch call of embedded documents ends without any store
\* call having failed, and one of its documents carries a url that an earlier
\* batch already wrote, the collection holds at most one point with that url.
C1_DedupAcrossBatches ==
    [][(/\ BatchEnds(1)
        /\ faults' = 0
        /\ \A d \in Range(sink_docs[1]) : d.embeddings # <<>>) =>
          \A d \in Range(sink_docs[1]) :
             PointsWithUrl(collection, d.metadata.url) # {} =>
                Cardinality(PointsWithUrl(collection', d.metadata.url)) <= 1]_vars

\* C2: once everything fed has been processed without a store failure, the
\* points of one url all belong to one article: no two of them differ in title.
C2_OneArticlePerUrl ==
    (Quiescent /\ faults = 0) =>
        \A pt1, pt2 \in collection :
            pt1.payload.url = pt2.payload.url => pt1.payload.title = pt2.payload.title

\* C3: the id of every point staged by write_batch is the chunk_id of a
\* document of the batch, the identity to_payload gives it.
C3_StagedByChunkId ==
    \A w \in SinkWorkers : \A k \in 1..Len(sink_points[w]) :
        sink_points[w][k].id \in {to_payload(d)[1] : d \in Range(sink_docs[w])}

\* C4: no document with an empty embeddings list is passed to write_batch or
\* staged for upsert.
C4_NoEmptyEmbeddingAtSink ==
    \A w \in SinkWorkers :
        /\ \A d \in Range(sink_docs[w]) : d.embeddings # <<>>
        /\ \A pt \in Range(sink_points[w]) : pt.vector # <<>>

\* C5: when a batch holding a chunk whose embedding failed ends, with no store
\* call having failed and the collection sized for the model, every chunk of
\* the batch that was embedded and staged is in the collection.
C5_FailedChunkAlone ==
    [][(/\ BatchEnds(1)
        /\ faults' = 0
        /\ hidden_size = collection_size
        /\ \E d \in Range(sink_docs[1]) : d.embeddings = <<>>) =>
          \A d \in Range(sink_docs[1]) :
             (d.embeddings # <<>> /\ PointStruct(d) \in Range(sink_points[1])) =>
                PointStruct(d) \in collection']_vars

\* A poll of partition p returns in this step, the provider call having ended
\* with `outcome`.
Polled(p, outcome) == part_pc[p] = "idle" /\ fetch_outcome'[p] = outcome

\* C6: a poll that returns articles advances the cursor to the time of the
\* poll: snapshot() is then the poll time, later than it was.
C6_CursorAdvances ==
    [][\A p \in Parts :
          Polled(p, "articles") =>
              (snapshot(p)' = now /\ snapshot(p) < snapshot(p)')]_vars

\* C7: a partition built from a persisted cursor reports that cursor, one
\* built without resume state reports the time it was built, and the value
\* stays while the partition waits for its poll.
C7_ResumeRoundTrip ==
    [][\A p \in Parts :
          /\ (part_pc[p] = "unbuilt" /\ part_pc'[p] = "idle") =>
                snapshot(p)' = IF checkpoint[p] # NoneValue THEN checkpoint[p] ELSE now
          /\ (part_pc[p] = "idle" /\ part_pc'[p] = "idle") =>
                snapshot(p)' = snapshot(p)]_vars

\* A partition rebuilt after a restart from a cursor older than its build time,
\* not yet polled.
C7_Witness ==
    \E p \in Parts :
        /\ restarts = 1
        /\ part_pc[p] = "idle"
        /\ snapshot(p) = checkpoint[p]
        /\ snapshot(p) + PollIntervalSeconds < awake[p]
        /\ awake[p] < snapshot(p) + 2 * PollIntervalSeconds

\* C8: a poll whose provider call raises emits nothing and leaves the
\* partition and the dataflow running; no partition is ever closed, and a
\* partition that is due can be polled.
C8_FailedFetchEmptyBatch ==
    /\ [][\A p \in Parts :
             Polled(p, "error") =>
                 (inp' = inp /\ part_pc'[p] = "fetched" /\ flow_status' = "running")]_vars
    /\ [](\A p \in Parts :
             /\ part_pc[p] # "closed"
             /\ part_pc[p] = "fetched" => ENABLED NextAwake(p)
             /\ (part_pc[p] = "idle" /\ now >= awake[p]) => ENABLED NextBatch(p))

\* A second poll of a partition, failing like the first could have: nothing
\* has been emitted.
C8_Witness ==
    \E p \in Parts :
        /\ restarts = 0
        /\ part_pc[p] = "fetched"
        /\ fetch_outcome[p] = "error"
        /\ awake[p] >= snapshot(p) + 2 * PollIntervalSeconds
        /\ ndocs = 0

\* C9: whatever the poll brought, next_awake schedules the next poll one poll
\* interval after the time it is called.
C9_FixedInterval ==
    [][\A p \in Parts :
          (part_pc[p] = "fetched" /\ part_pc'[p] = "idle") =>
              awake'[p] = now + PollIntervalSeconds]_vars

\* A partition scheduled after its second poll with nothing emitted so far:
\* both polls were empty or failed.
C9_Witness ==
    \E p \in Parts :
        /\ restarts = 0
        /\ part_pc[p] = "idle"
        /\ ndocs = 0
        /\ awake[p] = now + PollIntervalSeconds
        /\ awake[p] >= snapshot(p) + 3 * PollIntervalSeconds

\* C10: a failed fetch of one partition leaves the dataflow running and the
\* other partition as it was; a partition that is due can be polled whatever
\* the other one does; and the articles a poll returns enter the input stream.
C10_PartitionsIndependent ==
    /\ [][\A p, q \in Parts :
             (p # q /\ Polled(p, "error")) =>
                 /\ flow_status' = "running"
                 /\ part_pc'[q] = part_pc[q]
                 /\ awake'[q] = awake[q]
                 /\ snapshot(q)' = snapshot(q)]_vars
    /\ [](\A q \in Parts :
             (part_pc[q] = "idle" /\ now >= awake[q]) => ENABLED NextBatch(q))
    /\ [][\A q \in Parts :
             Polled(q, "articles") =>
                 (Len(inp') > Len(inp) /\ part_pc'[q] = "fetched")]_vars

\* One partition's second poll has failed while the other's poll returned
\* articles.
C10_Witness ==
    \E p, q \in Parts :
        /\ p # q
        /\ part_pc[p] = "fetched"
        /\ fetch_outcome[p] = "error"
        /\ awake[p] >= snapshot(p) + 2 * PollIntervalSeconds
        /\ part_pc[q] = "fetched"
        /\ fetch_outcome[q] = "articles"
        /\ inp # <<>>

\* C11: under any interleaving of construction requests by several threads,
\* at most one thread runs __init__ at a time, a run of __init__ starts only
\* while no instance is registered, every run except the one that registered
\* the instance raised, every request returns the one registered instance, and
\* once an instance is registered no request, whatever its arguments, starts
\* __init__ or changes what is registered.
C11_SingletonOnce ==
    /\ [](/\ Cardinality({t \in Threads : th_pc[t] = "init"}) <= 1
          /\ Cardinality(instances) <= 1
          /\ Cardinality(returned) <= 1
          /\ returned \subseteq instances
          /\ init_runs <= load_failures + 1
          /\ instances # {} => init_runs = load_failures + 1
          /\ (load_failures = 0 /\ returned # {}) => init_runs = 1)
    /\ [][instances # {} => (init_runs' = init_runs /\ instances' = instances)]_vars

\* Two threads raced: one is about to return the instance, the other took the
\* lock after it, found the instance at the second test, and had asked for
\* other arguments than the instance was built with.
C11_Witness ==
    \E t, u \in Threads :
        /\ t # u
        /\ th_pc[t] = "return"
        /\ th_pc[u] = "release"
        /\ lock = u
        /\ init_runs = 1
        /\ load_failures = 0
        /\ \E i \in instances : th_args[u] # i.token_limit

\* The existence check of the next document of worker w's batch is made in
\* this step and the store query raises.
CheckRaises(w) == sink_pc[w] = "checking" /\ faults' = faults + 1

\* The existence check of the next document is made and the query answers.
CheckAnswers(w) ==
    sink_pc[w] = "checking" /\ faults' = faults /\ sink_i'[w] = sink_i[w] + 1

\* C12: an existence check whose store query raises stages its document and
\* no exception leaves write_batch: the loop goes on to the next document,
\* whose check is made and decides by what the store holds for its url. Every
\* document of the batch has been checked when the loop ends.
C12_ExistenceCheckFailsOpen ==
    /\ [][CheckRaises(1) =>
             LET doc == sink_docs[1][sink_i[1]]
             IN  /\ sink_points'[1] = Append(sink_points[1], PointStruct(doc))
                 /\ flow_status' = "running"
                 /\ sink_i'[1] = sink_i[1] + 1
                 /\ sink_pc'[1] = IF sink_i[1] < Len(sink_docs[1])
                                  THEN "checking" ELSE "upsert"]_vars
    /\ [][CheckAnswers(1) =>
             LET doc == sink_docs[1][sink_i[1]]
             IN  IF PointsWithUrl(collection, doc.metadata.url) = {}
                 THEN sink_points'[1] = Append(sink_points[1], PointStruct(doc))
                 ELSE sink_points'[1] = sink_points[1]]_vars
    /\ [](/\ sink_pc[1] = "checking" =>
                (sink_i[1] <= Len(sink_docs[1]) /\ ENABLED Classify(1))
          /\ sink_pc[1] = "upsert" => sink_i[1] = Len(sink_docs[1]) + 1)

\* The check of the first document of a batch raised although the store holds
\* its url: the document is staged and the second document's check is next.
C12_Witness ==
    /\ sink_pc[1] = "checking"
    /\ sink_i[1] = 2
    /\ faults = 1
    /\ sink_points[1] = <<PointStruct(sink_docs[1][1])>>
    /\ PointsWithUrl(collection, sink_docs[1][1].metadata.url) # {}

\* The upsert of worker w's batch is attempted in this step and fails: the
\* call raises or the collection rejects a vector.
UpsertFails(w) ==
    /\ sink_pc[w] = "upsert"
    /\ sink_points[w] # <<>>
    /\ (faults' # faults \/ flow_status' # flow_status \/ sink_pc'[w] # sink_pc[w])
    /\ ~UpsertAccepted(sink_points[w], collection_size, faults' # faults)

\* C13: a failed upsert leaves the collection as it was, write_batch returns
\* with nothing kept for a retry and the dataflow runs on; after it the sink
\* takes the next batch, an accepted upsert writes every staged point, and a
\* partition that is due can be polled.
C13_UpsertFailureAbortsBatch ==
    /\ [][UpsertFails(1) =>
             /\ collection' = collection
             /\ flow_status' = "running"
             /\ sink_pc'[1] = "idle"
             /\ sink_points'[1] = <<>>
             /\ sink_docs'[1] = <<>>
             /\ embedded' = embedded
             /\ inp' = inp]_vars
    /\ [][(BatchEnds(1) /\ UpsertAccepted(sink_points[1], collection_size, faults' # faults)) =>
             \A pt \in Range(sink_points[1]) : \E q \in collection' : q.id = pt.id]_vars
    /\ [](/\ (sink_pc[1] = "idle" /\ embedded # <<>>) => ENABLED WriteBatch(1)
          /\ sink_pc[1] = "upsert" => ENABLED Upsert(1)
          /\ \A p \in Parts :
                (part_pc[p] = "idle" /\ now >= awake[p]) => ENABLED NextBatch(p))

\* The first article's upsert failed and the second article, which came to
\* the sink after it, is the only one the collection holds.
C13_Witness ==
    /\ Quiescent
    /\ ndocs = 2
    /\ collection # {}
    /\ \A pt \in collection : pt.id = uuid4(2)

\* The documents the poll of this step appends to the input stream.
Emitted == {inp'[k] : k \in (Len(inp) + 1)..Len(inp')}

\* C14: a poll whose response holds a record that fails validation beside
\* records that pass emits the records that pass: something enters the input
\* stream.
C14_MalformedRecordSkipped ==
    [][\A p \in Parts : Polled(p, "mixed") => Emitted # {}]_vars

\* C15: title, description and content of every CommonDocument emitted are
\* non-empty.
C15_TextFieldsNonEmpty ==
    \A k \in 1..Len(inp) :
        /\ inp[k].title # EmptyStr
        /\ inp[k].description # EmptyStr
        /\ inp[k].content # EmptyStr

\* The url a provider's record carries.
UrlOf(p, item) == IF p = "fetch_from_newsapi" THEN item.url ELSE item.link

\* text[i..j] is an HTML tag: "<", one or more characters other than ">", ">".
IsTag(text, i, j) ==
    /\ i + 1 < j
    /\ text[i] = "<"
    /\ text[j] = ">"
    /\ \A k \in (i + 1)..(j - 1) : text[k] # ">"

TagFree(text) == ~\E i, j \in 1..Len(text) : IsTag(text, i, j)

\* The text is nothing but whitespace and HTML tags.
RECURSIVE OnlyTags(_)
OnlyTags(text) ==
    \/ text = <<>>
    \/ Head(text) \in Whitespace /\ OnlyTags(Tail(text))
    \/ \E j \in 1..Len(text) :
          IsTag(text, 1, j) /\ OnlyTags(SubSeq(text, j + 1, Len(text)))

\* No whitespace at either end and no two whitespace characters in a row.
WhitespaceCollapsed(text) ==
    /\ text # <<>> => (Head(text) \notin Whitespace /\ text[Len(text)] \notin Whitespace)
    /\ \A i \in 1..(Len(text) - 1) : ~(text[i] \in Whitespace /\ text[i + 1] \in Whitespace)

RECURSIVE IsSubsequence(_, _)
IsSubsequence(small, big) ==
    IF small = <<>> THEN TRUE
    ELSE IF big = <<>> THEN FALSE
    ELSE IF Head(small) = Head(big) THEN IsSubsequence(Tail(small), Tail(big))
    ELSE IsSubsequence(small, Tail(big))

\* What the url of a document must be, given the url of its record.
UrlNormalized(raw, url) ==
    /\ url # EmptyStr
    /\ url # NoneText
    /\ OnlyTags(raw) => url = Sentinel
    /\ ~OnlyTags(raw) =>
          /\ TagFree(url)
          /\ WhitespaceCollapsed(url)
          /\ IsSubsequence(url, raw)
          /\ TagFree(raw) => MapDrop(url, Whitespace) = MapDrop(raw, Whitespace)

\* C16: the url of every CommonDocument a poll emits is non-empty: the
\* sentinel when the record's url is empty, whitespace or nothing but tags,
\* and otherwise the record's url without its tags and with its whitespace
\* collapsed.
C16_UrlNonEmpty ==
    [][\A p \in Parts :
          Polled(p, "articles") =>
              \A d \in Emitted : \E item \in feed[p] : UrlNormalized(UrlOf(p, item), d.url)]_vars

\* A document is in the input stream whose record's url held a tag, spaces
\* and a character outside them: only that character is left.
C16_Witness ==
    \E p \in Parts : \E item \in feed[p] :
        /\ feed[p] = {item}
        /\ Len(UrlOf(p, item)) = MaxUrlLen
        /\ ~TagFree(UrlOf(p, item))
        /\ \E i \in 1..MaxUrlLen : UrlOf(p, item)[i] \in Whitespace
        /\ \E k \in 1..Len(inp) : inp[k].url = <<"x">>

\* The date of a provider's record.
DateOf(p, item) == IF p = "fetch_from_newsapi" THEN item.publishedAt ELSE item.pubDate

\* C17: a document built from a record whose date cannot be parsed carries
\* the time of the poll that built it as published_at.
C17_DateFallsBackToIngestionTime ==
    [][\A p \in Parts :
          (/\ Polled(p, "articles")
           /\ \A item \in feed[p] : parser_parse(DateOf(p, item)).exc # "") =>
              \A d \in Emitted : d.published_at = now]_vars

\* The points of a collection that carry the content of pt.
SameContent(points, pt) ==
    {q \in points : q.payload = pt.payload /\ q.vector = pt.vector}

\* C18: when an accepted upsert carries a point whose content the collection
\* already holds, from an earlier delivery of the same article, the number of
\* points with that content does not grow.
C18_ReingestSameIdentity ==
    [][(BatchEnds(1) /\ UpsertAccepted(sink_points[1], collection_size, faults' # faults)) =>
          \A pt \in Range(sink_points[1]) :
              SameContent(collection, pt) # {} =>
                  Cardinality(SameContent(collection', pt))
                      <= Cardinality(SameContent(collection, pt))]_vars

\* The search step of thread t fails: the store's search call raises, or the
\* query embedding it is given came back empty.
SearchFails(t) ==
    /\ th_pc[t] = "search"
    /\ th_pc'[t] = "idle"
    /\ (faults' = faults + 1 \/ th_embedding[t] = <<>>)

\* C19: a failed search never crashes the interactive session: when the
\* vector-store search call raises, or the query embedding comes back empty,
\* query_index / _on_search end with an empty result set and no exception.
C19_FailedSearchNeverCrashes ==
    [][\A t \in Threads :
          SearchFails(t) => search_outcome'[t] = Returned(<<>>)]_vars

\* The environment variable of every key asked for here.
EnvNameOfKey == <<"K", "E", "Y">>

\* C20: configuration lookup is environment first: AppConfig.get returns the
\* environment variable's value when it is set, even an empty one and even if
\* the file also defines the key; otherwise the file's value; otherwise the
\* supplied default.
C20_EnvironmentFirst ==
    cfg_result # NoResult =>
        IF environ[EnvNameOfKey] # NoneText
        THEN cfg_result.value = environ[EnvNameOfKey]
        ELSE IF config_file[cfg_result.key] # NoneText
        THEN cfg_result.value = config_file[cfg_result.key]
        ELSE cfg_result.value = cfg_result.default

\* The variable is set, the file defines the key with another value, and the
\* lookup answered with the variable's value.
C20_Witness ==
    /\ cfg_result # NoResult
    /\ cfg_result.key = <<"k", "e", "y">>
    /\ environ[EnvNameOfKey] = <<"e">>
    /\ config_file[cfg_result.key] = <<"f">>
    /\ cfg_result.value = <<"e">>

\* The upsert of worker w adds, in this step, a point whose url an entry
\* written by an earlier upsert already has, and that entry stays.
DuplicateAcrossBatches(w) ==
    /\ BatchEnds(w)
    /\ \E pt \in collection' \ collection :
          \E q \in collection \cap collection' : q.payload.url = pt.payload.url

Checks(w) == sink_pc[w] = "checking" /\ sink_i'[w] = sink_i[w] + 1

\* What that check finds: an entry with the document's url, the query not
\* having raised.
Found(w) ==
    /\ faults' = faults
    /\ PointsWithUrl(collection, sink_docs[w][sink_i[w]].metadata.url) # {}

\* The point of the document under that check.
PointOf(w) ==
    [id |-> sink_docs[w][sink_i[w]].doc_id,
     vector |-> sink_docs[w][sink_i[w]].embeddings,
     payload |-> sink_docs[w][sink_i[w]].metadata]

\* C22: write_batch classifies the whole batch before writing. A check
\* writes nothing and stages its document, after those staged before it,
\* exactly when it is not found; the upsert comes when every document has
\* been checked, ends the call, writes nothing but staged points, and is not
\* made at all when nothing was staged.
C22_ClassifyThenOneUpsert ==
    /\ [](\A w \in SinkWorkers :
            sink_pc[w] = "upsert" => sink_i[w] = Len(sink_docs[w]) + 1)
    /\ [][/\ collection' # collection => \E w \in SinkWorkers : BatchEnds(w)
          /\ \A w \in SinkWorkers :
            /\ Checks(w) =>
                  /\ collection' = collection
                  /\ sink_points'[w] = IF Found(w) THEN sink_points[w]
                                       ELSE Append(sink_points[w], PointOf(w))
            /\ BatchEnds(w) =>
                  /\ collection' \ collection \subseteq Range(sink_points[w])
                  /\ sink_points[w] = <<>> => (collection' = collection /\ faults' = faults)
                  /\ sink_points'[w] = <<>>]_vars

\* A batch of two documents has been classified: one was found and skipped,
\* the other is staged, and the upsert is next.
C22_Witness ==
    /\ sink_pc[1] = "upsert"
    /\ Len(sink_docs[1]) = 2
    /\ Len(sink_points[1]) = 1
    /\ faults = 0
    /\ PointsWithUrl(collection, sink_docs[1][1].metadata.url) # {}
    /\ sink_points[1][1].payload = sink_docs[1][2].metadata

\* The documents of worker w's batch that are chunks of the article of d.
ChunksOf(w, d) == {k \in 1..Len(sink_docs[w]) : sink_docs[w][k].doc_id = d.doc_id}

\* The entries the collection holds for the article of d.
EntriesOf(points, d) == {pt \in points : pt.payload = d.metadata}

\* C23: no chunk of a new article is lost. When a write_batch call ends with
\* no store call having failed and every document of it successfully
\* embedded, an article of the batch whose url the store did not hold has as
\* many entries as the batch had chunks of it.
C23_NoChunkLost ==
    [][\A w \in SinkWorkers :
          (/\ BatchEnds(w)
           /\ faults' = 0
           /\ \A d \in Range(sink_docs[w]) : Len(d.embeddings) = collection_size) =>
             \A d \in Range(sink_docs[w]) :
                PointsWithUrl(collection, d.metadata.url) = {} =>
                   Cardinality(EntriesOf(collection', d)) >=
                      Cardinality(ChunksOf(w, d))]_vars

\* C24: the collection's vector dimension matches what is written into it:
\* every non-empty vector write_batch has staged has the length the
\* collection was created with.
C24_CollectionDimensionMatches ==
    \A w \in SinkWorkers :
       \A k \in 1..Len(sink_points[w]) :
          sink_points[w][k].vector # <<>> =>
             Len(sink_points[w][k].vector) = collection_size

\* C25: the sink skips a document only when the store already holds that
\* same article. When a write_batch call ends with no store call having
\* failed and every document of it successfully embedded, every article of
\* the batch whose url is the sentinel has an entry.
C25_SentinelUrlsNotDeduplicated ==
    [][\A w \in SinkWorkers :
          (/\ BatchEnds(w)
           /\ faults' = 0
           /\ \A d \in Range(sink_docs[w]) : Len(d.embeddings) = collection_size) =>
             \A d \in Range(sink_docs[w]) :
                d.metadata.url = Sentinel => EntriesOf(collection', d) # {}]_vars

\* The run of TextEmbedder.__init__ made for thread t raises in this step.
InitFails(t) == th_pc[t] = "init" /\ load_failures' = load_failures + 1

\* C26: a failed embedder initialization leaves no trace. The step in which
\* the load raises registers nothing, frees the lock and ends the request
\* with RuntimeError at the caller; the instance registered or returned at
\* any time is the one built by the run that followed every failed run; and
\* a request that takes the lock after a failure, with nothing registered,
\* runs the initialization again.
C26_FailedInitLeavesNoTrace ==
    /\ [](\A i \in instances \cup returned :
             i = TextEmbedder_init(load_failures + 1, i.token_limit))
    /\ [][\A t \in Threads :
             /\ InitFails(t) =>
                   /\ instances' = {}
                   /\ returned' = returned
                   /\ lock' = 0
                   /\ th_pc'[t] = "idle"
                   /\ search_outcome'[t] = Raised("RuntimeError")
             /\ (th_pc[t] = "locked" /\ th_pc'[t] # "locked" /\ load_failures > 0
                 /\ instances = {}) =>
                   (th_pc'[t] = "init" /\ init_runs' = init_runs + 1)]_vars

\* A load failed and its caller got the RuntimeError; a later request ran
\* the initialization again and its instance has been returned.
C26_Witness ==
    /\ load_failures = 1
    /\ init_runs = 2
    /\ lock = 0
    /\ \E t \in Threads : search_outcome[t] = Raised("RuntimeError")
    /\ returned = {TextEmbedder_init(2, 256)}

\* The articles a source hands to fetch_all_sources: those of its records,
\* in order, or none when its provider call raised or a record of the
\* response is not valid.
Contribution(p, response, first_uuid) ==
    IF response.raises \/ \E item \in Range(response.items) : ~Validates(p, item)
    THEN <<>>
    ELSE [k \in 1..Len(response.items) |->
             IF p = "fetch_from_newsapi"
             THEN NewsAPIModel_to_common(response.items[k], first_uuid + k,
                                         CURRENT_TIMESTAMP)
             ELSE NewsDataIOModel_to_common(response.items[k], CURRENT_TIMESTAMP)]

\* Everything the sources contributed to the last call, in source order.
AllArticles ==
    Contribution("fetch_from_newsapi", unique_articles.newsapi, 0) \o
    Contribution("fetch_from_newsdataapi", unique_articles.newsdata, 0)

\* C27: fetch_all_sources returns normally; no two articles of the result
\* share a url; the result keeps, for each url some source delivered, exactly
\* the first article with it in source order (NewsAPI before NewsData), in
\* the order of delivery; removing duplicates from the result again changes
\* nothing; a source that failed contributes nothing and the other source's
\* urls are all there.
C27_FetchAllSourcesUnique ==
    unique_articles # NoCall =>
        LET result == unique_articles.result.value
            all == AllArticles
            first(u) == all[CHOOSE i \in 1..Len(all) :
                               /\ all[i].url = u
                               /\ \A k \in 1..(i - 1) : all[k].url # u]
        IN  /\ unique_articles.result.exc = ""
            /\ \A i, k \in 1..Len(result) : i # k => result[i].url # result[k].url
            /\ {result[i].url : i \in 1..Len(result)} = {all[i].url : i \in 1..Len(all)}
            /\ \A i \in 1..Len(result) : result[i] = first(result[i].url)
            /\ IsSubsequence(result, all)
            /\ _remove_duplicates(result) = result
            /\ unique_articles.newsapi.raises =>
                  {result[i].url : i \in 1..Len(result)} =
                  {a.url : a \in Range(Contribution("fetch_from_newsdataapi",
                                                    unique_articles.newsdata, 0))}
            /\ unique_articles.newsdata.raises =>
                  {result[i].url : i \in 1..Len(result)} =
                  {a.url : a \in Range(Contribution("fetch_from_newsapi",
                                                    unique_articles.newsapi, 0))}

\* NewsAPI delivered two stories with url "x", NewsData one with url "x" and
\* one with url "y": the result is the first NewsAPI story and the NewsData
\* story with url "y".
C27_Witness ==
    /\ unique_articles # NoCall
    /\ Len(AllArticles) = 4
    /\ Len(unique_articles.result.value) = 2
    /\ unique_articles.result.value[1] = AllArticles[1]
    /\ AllArticles[2].url = UrlX
    /\ unique_articles.result.value[2].url = UrlY
    /\ unique_articles.result.value[2].article_id \in {<<"newsdata", "n1">>}

====
